---- MODULE Spec2Model ----
(***************************************************************************)
(* avify: main() walks a directory (FindImagesAt), then converts every     *)
(* image found with a bounded number of goroutines (ConvertImages), each   *)
(* running ConvertImage and folding its outcome into the shared Stats.     *)
(* The model follows the last variant of src/main.go (lines 193-463).      *)
(***************************************************************************)
EXTENDS Integers, Sequences, FiniteSets, TLC

\* ---------------------------------------------------------------- bounds
MaxEntries == 3

MaxConcurrency == 2

\* Paths given to ConvertImages when ConvertImage is followed step by step.
MaxTasks == 2

\* ------------------------------------------------------ program constants
\* FindImagesAt reports discoveries to Progress in batches of this size.
ProgressBatch == 20

\* The extensions of AllowedExtensions, `\.(gif|jpg|jpeg|png|webp)$`.
AllowedExtensions == {"gif", "jpg", "jpeg", "png", "webp"}

\* ------------------------------------------------------------ environment
\* What the walk can meet at one position: a directory, a regular file that
\* does not match, a regular file that matches, or an entry whose lstat /
\* readdir failed (the callback is called with err # nil).
EntryKinds == {"dir", "txt", "jpg", "err"}

\* The step of ConvertImage the filesystem or the codec makes fail, chosen
\* by the environment when the call is made.
FailPoints == {"none", "open", "decode", "encode", "write", "remove"}

Nil == "nil"

Failure == "error"

\* The path of the k-th entry of the walk.
PathOf(k, kind) == [stem |-> k, ext |-> kind]

\* Bytes the decoder reads from the source at path p (reader.count) and the
\* length of the AVIF buffer the codec returns for it (len(bytes)).
SourceBytes(p) == 2 ^ (p.stem - 1)

EncodedBytes(p) == 3 ^ (p.stem - 1)

VARIABLES
    entries,      \* the tree under os.Args[1], in walk order
    Concurrency,  \* var Concurrency = runtime.NumCPU()
    fs,           \* the paths that exist as files
    mainPc,       \* position of main / FindImagesAt / ConvertImages
    walkIdx,      \* next entry WalkDir hands to the callback
    files,        \* FindImagesAt: var files []string
    count,        \* FindImagesAt: var count int
    progress,     \* Progress: the bar's current count
    paths,        \* main: paths
    err,          \* main: err of FindImagesAt
    stats,        \* ConvertImages: stats
    wg,           \* sync.WaitGroup counter
    mu,           \* sync.Mutex: 0 when free, else the goroutine holding it
    sm,           \* semaphore.Weighted: permits held (cur)
    idx,          \* the range loop's position in paths
    pc,           \* per goroutine: position in the func literal
    sizeBefore,   \* per goroutine: sizeBefore
    sizeAfter,    \* per goroutine: sizeAfter
    goErr,        \* per goroutine: err of ConvertImage
    reg,          \* per goroutine: the value a read-modify-write has loaded
    peak,         \* instrumentation: most permits ever held at once
    order,        \* instrumentation: goroutines in the order they recorded
    goPath,       \* per goroutine: the path its body works on
    trace,        \* per goroutine: the steps of ConvertImage taken, in order
    content,      \* per destination: the goroutine whose bytes it holds
    errChan,      \* error-channel variant: errChan
    oldTotalSize, \* error-channel variant: oldTotalSize
    newTotalSize, \* error-channel variant: newTotalSize
    ret           \* error-channel variant: what ConvertImages returned

vars == <<entries, Concurrency, fs, mainPc, walkIdx, files, count,
          progress, paths, err, stats, wg, mu, sm, idx, pc, sizeBefore,
          sizeAfter, goErr, reg, peak, order, goPath, trace, content,
          errChan, oldTotalSize, newTotalSize, ret>>

\* State of the step-by-step ConvertImage; the one-step GoConvert leaves it.
taskVars == <<trace, content>>

\* State of the error-channel variant of ConvertImages (src/go.mod).
chanVars == <<errChan, oldTotalSize, newTotalSize, ret>>

envVars == <<entries, Concurrency>>

findVars == <<walkIdx, files, count, paths, err>>

goVars == <<pc, sizeBefore, sizeAfter, goErr, reg>>

\* ---------------------------------------------------------------- helpers
IsRegular(kind) == kind \in {"txt", "jpg"}

MatchString(p) == p.ext \in AllowedExtensions

ReplaceExt(p) == [p EXCEPT !.ext = "avif"]

\* The elements of a slice.
Range(q) == {q[k] : k \in DOMAIN q}

\* The files that exist before the run: every regular entry of the tree.
InitialFiles(es) ==
    {PathOf(k, es[k]) : k \in {j \in DOMAIN es : IsRegular(es[j])}}

\* The goroutines ConvertImages can start: one per element of paths.
Goroutines == 1..Len(entries)

EmptyStats == [Failed |-> <<>>, SizeBefore |-> 0, SizeAfter |-> 0]

\* A goroutine's registers outside a read-modify-write.
NoReg == [size |-> 0, slice |-> <<>>]

\* The path of a goroutine that has not read its parameter yet.
NoPath == [stem |-> 0, ext |-> ""]

\* What ConvertImages of the error-channel variant has returned: nothing yet.
NoReturn == [old |-> 0, new |-> 0, err |-> 0, returned |-> FALSE]

\* ConvertImage(path): open, decode, encode, write the destination, remove
\* the source; the first failing step returns 0, 0, err.  `at` is the step
\* that fails for this file, `torn` whether a failed WriteFile left a file.
ConvertImage(p, at, torn, disk) ==
    IF at = "open" \/ p \notin disk THEN
        [before |-> 0, after |-> 0, err |-> Failure, disk |-> disk]
    ELSE IF at = "decode" THEN
        [before |-> 0, after |-> 0, err |-> Failure, disk |-> disk]
    ELSE IF at = "encode" THEN
        [before |-> 0, after |-> 0, err |-> Failure, disk |-> disk]
    ELSE IF at = "write" THEN
        [before |-> 0, after |-> 0, err |-> Failure,
         disk |-> IF torn THEN disk \cup {ReplaceExt(p)} ELSE disk]
    ELSE IF at = "remove" THEN
        [before |-> 0, after |-> 0, err |-> Failure,
         disk |-> disk \cup {ReplaceExt(p)}]
    ELSE
        [before |-> SourceBytes(p), after |-> EncodedBytes(p), err |-> Nil,
         disk |-> (disk \cup {ReplaceExt(p)}) \ {p}]

\* sm.Acquire(ctx, 1) goes through when a permit is free.
AcquireUnbounded(cur, size) == TRUE

AcquireOffByOne(cur, size) == cur + 1 < size

CanAcquire(cur, size) == cur + 1 <= size

\* defer sm.Release(1): runs whether ConvertImage failed or not.
ReleaseOnSuccessOnly(cur, e) == IF e = Nil THEN cur - 1 ELSE cur

Release(cur, e) == cur - 1

\* mu.Lock() goes through when nobody holds the mutex.
NoMutex(holder) == TRUE

CanLock(holder) == holder = 0

\* wg.Wait() returns when the counter is zero.
WaitNever(n) == TRUE

WaitDone(n) == n = 0

\* stats.SizeBefore += sizeBefore, stats.SizeAfter += sizeAfter.
Overwrite(total, n) == n

Accumulate(total, n) == total + n

\* for _, path := range paths: the loop runs over every element, whatever
\* the goroutines started so far have recorded.
StopOnFailure(k, ps, st) == k <= Len(ps) /\ st.Failed = <<>>

HasNext(k, ps, st) == k <= Len(ps)

\* go func(path string) {...}(path): the body works on its own parameter,
\* not on the loop's variable.
SharedLoopVar(arg, loopVar) == loopVar

BodyPath(arg, loopVar) == arg

\* main: if err != nil { panic(err) }.
IgnoreError(e) == FALSE

MainAborts(e) == e # Nil

\* main: if len(paths) == 0 { fmt.Println("No images found"); return }.
NeverNoWork(ps) == FALSE

NoWork(ps) == Len(ps) = 0

\* Progress.Add(1) in the goroutine: one tick per task, before the err test.
NotifyOnSuccess(n, e) == IF e = Nil THEN n + 1 ELSE n

Notify(n, e) == n + 1

\* ------------------------------------------------------------------- Init
Init ==
    /\ entries \in UNION {[1..n -> EntryKinds] : n \in 0..MaxEntries}
    /\ Concurrency \in 1..MaxConcurrency
    /\ fs = InitialFiles(entries)
    /\ mainPc = "walk"
    /\ walkIdx = 1
    /\ files = <<>>
    /\ count = 0
    /\ progress = 0
    /\ paths = <<>>
    /\ err = Nil
    /\ stats = EmptyStats
    /\ wg = 0
    /\ mu = 0
    /\ sm = 0
    /\ idx = 1
    /\ pc = [g \in Goroutines |-> "idle"]
    /\ sizeBefore = [g \in Goroutines |-> 0]
    /\ sizeAfter = [g \in Goroutines |-> 0]
    /\ goErr = [g \in Goroutines |-> Nil]
    /\ reg = [g \in Goroutines |-> NoReg]
    /\ peak = 0
    /\ order = <<>>
    /\ goPath = [g \in Goroutines |-> NoPath]
    /\ trace = [g \in Goroutines |-> <<>>]
    /\ content = <<>>
    /\ errChan = <<>>
    /\ oldTotalSize = 0
    /\ newTotalSize = 0
    /\ ret = NoReturn

\* ----------------------------------------------------------- FindImagesAt
\* One call of the WalkDir callback.
WalkEntry ==
    /\ mainPc = "walk"
    /\ walkIdx <= Len(entries)
    /\ LET kind == entries[walkIdx]
           p == PathOf(walkIdx, kind)
       IN IF kind = "err" THEN
              \* return err: WalkDir stops and returns it
              /\ err' = Failure
              /\ paths' = files
              /\ mainPc' = "found"
              /\ UNCHANGED <<walkIdx, files, count, progress>>
          ELSE IF ~IsRegular(kind) \/ ~MatchString(p) THEN
              /\ walkIdx' = walkIdx + 1
              /\ UNCHANGED <<files, count, progress, paths, err, mainPc>>
          ELSE
              /\ walkIdx' = walkIdx + 1
              /\ files' = Append(files, p)
              /\ IF count + 1 >= ProgressBatch
                    THEN progress' = progress + count + 1 /\ count' = 0
                    ELSE count' = count + 1 /\ UNCHANGED progress
              /\ UNCHANGED <<paths, err, mainPc>>
    /\ UNCHANGED <<envVars, fs, stats, wg, mu, sm, idx, goVars, peak, order>>
    /\ UNCHANGED <<goPath, taskVars, chanVars>>

\* WalkDir has visited everything: return files, err.
FindReturn ==
    /\ mainPc = "walk"
    /\ walkIdx > Len(entries)
    /\ paths' = files
    /\ err' = Nil
    /\ mainPc' = "found"
    /\ UNCHANGED <<envVars, fs, walkIdx, files, count, progress, stats, wg,
                   mu, sm, idx, goVars, peak, order>>
    /\ UNCHANGED <<goPath, taskVars, chanVars>>

\* ------------------------------------------------------------------- main
MainPanic ==
    /\ mainPc = "found"
    /\ MainAborts(err)
    /\ mainPc' = "panic"
    /\ UNCHANGED <<envVars, fs, findVars, progress, stats, wg, mu, sm, idx,
                   goVars, peak, order>>
    /\ UNCHANGED <<goPath, taskVars, chanVars>>
MainNoImages ==
    /\ mainPc = "found"
    /\ ~MainAborts(err)
    /\ NoWork(paths)
    /\ mainPc' = "noimages"
    /\ UNCHANGED <<envVars, fs, findVars, progress, stats, wg, mu, sm, idx,
                   goVars, peak, order>>
    /\ UNCHANGED <<goPath, taskVars, chanVars>>

\* ---------------------------------------------------------- ConvertImages
\* Progress.Reset(), stats := &Stats{}, wg, mu, sm := NewWeighted(Concurrency).
ConvertStart ==
    /\ mainPc = "found"
    /\ ~MainAborts(err)
    /\ ~NoWork(paths)
    /\ progress' = 0
    /\ stats' = EmptyStats
    /\ wg' = 0
    /\ mu' = 0
    /\ sm' = 0
    /\ idx' = 1
    /\ mainPc' = "loop"
    /\ UNCHANGED <<envVars, fs, findVars, goVars, peak, order>>
    /\ UNCHANGED <<goPath, taskVars, chanVars>>

\* Next iteration of the range loop: wg.Add(1).
LoopAdd ==
    /\ mainPc = "loop"
    /\ HasNext(idx, paths, stats)
    /\ wg' = wg + 1
    /\ mainPc' = "acquire"
    /\ UNCHANGED <<envVars, fs, findVars, progress, stats, mu, sm, idx,
                   goVars, peak, order>>
    /\ UNCHANGED <<goPath, taskVars, chanVars>>

\* sm.Acquire(context.TODO(), 1): blocks while every permit is held.
LoopAcquire ==
    /\ mainPc = "acquire"
    /\ CanAcquire(sm, Concurrency)
    /\ sm' = sm + 1
    /\ peak' = IF sm + 1 > peak THEN sm + 1 ELSE peak
    /\ mainPc' = "go"
    /\ UNCHANGED <<envVars, fs, findVars, progress, stats, wg, mu, idx,
                   goVars, order>>
    /\ UNCHANGED <<goPath, taskVars, chanVars>>

\* go func(path string) {...}(path)
LoopGo ==
    /\ mainPc = "go"
    /\ pc' = [pc EXCEPT ![idx] = "convert"]
    /\ idx' = idx + 1
    /\ mainPc' = "loop"
    /\ UNCHANGED <<envVars, fs, findVars, progress, stats, wg, mu, sm,
                   sizeBefore, sizeAfter, goErr, reg, peak, order>>
    /\ UNCHANGED <<goPath, taskVars, chanVars>>

\* The range loop is over.
LoopEnd ==
    /\ mainPc = "loop"
    /\ ~HasNext(idx, paths, stats)
    /\ mainPc' = "wait"
    /\ UNCHANGED <<envVars, fs, findVars, progress, stats, wg, mu, sm, idx,
                   goVars, peak, order>>
    /\ UNCHANGED <<goPath, taskVars, chanVars>>

\* wg.Wait(); return stats, nil (main: stats, err := ConvertImages(paths))
WgWait ==
    /\ mainPc = "wait"
    /\ WaitDone(wg)
    /\ err' = Nil
    /\ mainPc' = "returned"
    /\ UNCHANGED <<envVars, fs, walkIdx, files, count, paths, progress, stats,
                   wg, mu, sm, idx, goVars, peak, order>>
    /\ UNCHANGED <<goPath, taskVars, chanVars>>

\* main prints the totals and the failed paths.
MainPrint ==
    /\ mainPc = "returned"
    /\ mainPc' = "done"
    /\ UNCHANGED <<envVars, fs, findVars, progress, stats, wg, mu, sm, idx,
                   goVars, peak, order>>
    /\ UNCHANGED <<goPath, taskVars, chanVars>>

\* The value of the range loop's variable `path`: the element of the
\* iteration under way, or of the last one finished.
LoopPath ==
    IF mainPc \in {"acquire", "go"} THEN paths[idx]
    ELSE IF idx > 1 THEN paths[idx - 1]
    ELSE NoPath

\* ------------------------------------------------------------- goroutines
\* sizeBefore, sizeAfter, err := ConvertImage(path)
GoConvert(g) ==
    /\ pc[g] = "convert"
    /\ \E at \in FailPoints, torn \in BOOLEAN :
        LET p == BodyPath(paths[g], LoopPath)
            r == ConvertImage(p, at, torn, fs)
        IN /\ goPath' = [goPath EXCEPT ![g] = p]
           /\ sizeBefore' = [sizeBefore EXCEPT ![g] = r.before]
           /\ sizeAfter' = [sizeAfter EXCEPT ![g] = r.after]
           /\ goErr' = [goErr EXCEPT ![g] = r.err]
           /\ fs' = r.disk
    /\ pc' = [pc EXCEPT ![g] = "lock"]
    /\ UNCHANGED <<envVars, findVars, mainPc, progress, stats, wg, mu, sm,
                   idx, reg, peak, order>>
    /\ UNCHANGED <<taskVars, chanVars>>

\* mu.Lock()
GoLock(g) ==
    /\ pc[g] = "lock"
    /\ CanLock(mu)
    /\ mu' = g
    /\ pc' = [pc EXCEPT ![g] = "progress"]
    /\ UNCHANGED <<envVars, fs, findVars, mainPc, progress, stats, wg, sm,
                   idx, sizeBefore, sizeAfter, goErr, reg, peak, order>>
    /\ UNCHANGED <<goPath, taskVars, chanVars>>

\* Progress.Add(1); if err != nil
GoProgress(g) ==
    /\ pc[g] = "progress"
    /\ progress' = Notify(progress, goErr[g])
    /\ order' = Append(order, g)
    /\ pc' = [pc EXCEPT ![g] = IF goErr[g] # Nil THEN "appendLoad"
                                                 ELSE "beforeLoad"]
    /\ UNCHANGED <<envVars, fs, findVars, mainPc, stats, wg, mu, sm, idx,
                   sizeBefore, sizeAfter, goErr, reg, peak>>
    /\ UNCHANGED <<goPath, taskVars, chanVars>>

\* stats.Failed = append(stats.Failed, path): read the slice ...
GoAppendLoad(g) ==
    /\ pc[g] = "appendLoad"
    /\ reg' = [reg EXCEPT ![g].slice = stats.Failed]
    /\ pc' = [pc EXCEPT ![g] = "appendStore"]
    /\ UNCHANGED <<envVars, fs, findVars, mainPc, progress, stats, wg, mu,
                   sm, idx, sizeBefore, sizeAfter, goErr, peak, order>>
    /\ UNCHANGED <<goPath, taskVars, chanVars>>

\* ... and store the extended one.
GoAppendStore(g) ==
    /\ pc[g] = "appendStore"
    /\ stats' = [stats EXCEPT !.Failed = Append(reg[g].slice, goPath[g])]
    /\ reg' = [reg EXCEPT ![g] = NoReg]
    /\ pc' = [pc EXCEPT ![g] = "unlock"]
    /\ UNCHANGED <<envVars, fs, findVars, mainPc, progress, wg, mu, sm, idx,
                   sizeBefore, sizeAfter, goErr, peak, order>>
    /\ UNCHANGED <<goPath, taskVars, chanVars>>

\* stats.SizeBefore += sizeBefore: read ...
GoBeforeLoad(g) ==
    /\ pc[g] = "beforeLoad"
    /\ reg' = [reg EXCEPT ![g].size = stats.SizeBefore]
    /\ pc' = [pc EXCEPT ![g] = "beforeStore"]
    /\ UNCHANGED <<envVars, fs, findVars, mainPc, progress, stats, wg, mu,
                   sm, idx, sizeBefore, sizeAfter, goErr, peak, order>>
    /\ UNCHANGED <<goPath, taskVars, chanVars>>

\* ... and write.
GoBeforeStore(g) ==
    /\ pc[g] = "beforeStore"
    /\ stats' = [stats EXCEPT !.SizeBefore = Accumulate(reg[g].size, sizeBefore[g])]
    /\ reg' = [reg EXCEPT ![g] = NoReg]
    /\ pc' = [pc EXCEPT ![g] = "afterLoad"]
    /\ UNCHANGED <<envVars, fs, findVars, mainPc, progress, wg, mu, sm, idx,
                   sizeBefore, sizeAfter, goErr, peak, order>>
    /\ UNCHANGED <<goPath, taskVars, chanVars>>

\* stats.SizeAfter += sizeAfter: read ...
GoAfterLoad(g) ==
    /\ pc[g] = "afterLoad"
    /\ reg' = [reg EXCEPT ![g].size = stats.SizeAfter]
    /\ pc' = [pc EXCEPT ![g] = "afterStore"]
    /\ UNCHANGED <<envVars, fs, findVars, mainPc, progress, stats, wg, mu,
                   sm, idx, sizeBefore, sizeAfter, goErr, peak, order>>
    /\ UNCHANGED <<goPath, taskVars, chanVars>>

\* ... and write.
GoAfterStore(g) ==
    /\ pc[g] = "afterStore"
    /\ stats' = [stats EXCEPT !.SizeAfter = Accumulate(reg[g].size, sizeAfter[g])]
    /\ reg' = [reg EXCEPT ![g] = NoReg]
    /\ pc' = [pc EXCEPT ![g] = "unlock"]
    /\ UNCHANGED <<envVars, fs, findVars, mainPc, progress, wg, mu, sm, idx,
                   sizeBefore, sizeAfter, goErr, peak, order>>
    /\ UNCHANGED <<goPath, taskVars, chanVars>>

\* mu.Unlock()
GoUnlock(g) ==
    /\ pc[g] = "unlock"
    /\ mu' = 0
    /\ pc' = [pc EXCEPT ![g] = "release"]
    /\ UNCHANGED <<envVars, fs, findVars, mainPc, progress, stats, wg, sm,
                   idx, sizeBefore, sizeAfter, goErr, reg, peak, order>>
    /\ UNCHANGED <<goPath, taskVars, chanVars>>

\* deferred sm.Release(1)
GoRelease(g) ==
    /\ pc[g] = "release"
    /\ sm' = Release(sm, goErr[g])
    /\ pc' = [pc EXCEPT ![g] = "wgdone"]
    /\ UNCHANGED <<envVars, fs, findVars, mainPc, progress, stats, wg, mu,
                   idx, sizeBefore, sizeAfter, goErr, reg, peak, order>>
    /\ UNCHANGED <<goPath, taskVars, chanVars>>

\* deferred wg.Done(); the goroutine ends.
GoDone(g) ==
    /\ pc[g] = "wgdone"
    /\ wg' = wg - 1
    /\ pc' = [pc EXCEPT ![g] = "exit"]
    /\ UNCHANGED <<envVars, fs, findVars, mainPc, progress, stats, mu, sm,
                   idx, sizeBefore, sizeAfter, goErr, reg, peak, order>>
    /\ UNCHANGED <<goPath, taskVars, chanVars>>

MainStep ==
    \/ WalkEntry
    \/ FindReturn
    \/ MainPanic
    \/ MainNoImages
    \/ ConvertStart
    \/ LoopAdd
    \/ LoopAcquire
    \/ LoopGo
    \/ LoopEnd
    \/ WgWait
    \/ MainPrint

GoStep(g) ==
    \/ GoConvert(g)
    \/ GoLock(g)
    \/ GoProgress(g)
    \/ GoAppendLoad(g)
    \/ GoAppendStore(g)
    \/ GoBeforeLoad(g)
    \/ GoBeforeStore(g)
    \/ GoAfterLoad(g)
    \/ GoAfterStore(g)
    \/ GoUnlock(g)
    \/ GoRelease(g)
    \/ GoDone(g)

Next == MainStep \/ \E g \in Goroutines : GoStep(g)

Spec == Init /\ [][Next]_vars

\* ------------------------------------------- ConvertImage, step by step
\* The same ConvertImages, entered with a list of paths in which two sources
\* may share a destination (a.jpg and a.png), and with ConvertImage taken
\* one filesystem or codec call at a time.

\* The files a tree can hold, in the lexical order WalkDir visits them.
SourcePaths ==
    <<[stem |-> 1, ext |-> "jpg"], [stem |-> 1, ext |-> "png"],
      [stem |-> 2, ext |-> "jpg"]>>

\* The elements of SourcePaths at the positions S, in walk order.
Listing(S) ==
    LET q == CHOOSE f \in [1..Cardinality(S) -> S] :
                 \A a, b \in 1..Cardinality(S) : a < b => f[a] < f[b]
    IN [k \in 1..Cardinality(S) |-> SourcePaths[q[k]]]

\* content[d]: no file at d, a file that was there before the run, or the
\* goroutine (>= 1) whose WriteFile wrote d last.
Absent == -1

Preexisting == 0

\* The order of the calls in ConvertImage.
StepOrder == <<"open", "decode", "encode", "write", "remove">>

\* if err != nil { return 0, 0, err }: a failed call ends ConvertImage, a
\* successful one leads to the next call.
IgnoreStepError(next, ok) == next

AfterStep(next, ok) == IF ok THEN next ELSE "lock"

\* os.WriteFile(ReplaceExt(path), bytes, 0644) creates or truncates: it
\* does not look at whether the destination exists.
NoClobber(d, disk) == d \notin disk

WriteAllowed(d, disk) == TRUE

\* err = os.Remove(path); if err != nil { return 0, 0, err };
\* return uint64(reader.count), uint64(len(bytes)), nil
IgnoreRemoveError(ok, p) ==
    [before |-> SourceBytes(p), after |-> EncodedBytes(p), err |-> Nil]

FinalResult(ok, p) ==
    IF ok THEN [before |-> SourceBytes(p), after |-> EncodedBytes(p),
                err |-> Nil]
    ELSE [before |-> 0, after |-> 0, err |-> Failure]

\* ConvertImages has just been entered with paths; the destinations may
\* exist already.
TaskInit ==
    /\ \E S \in SUBSET DOMAIN SourcePaths :
          /\ Cardinality(S) \in 1..MaxTasks
          /\ paths = Listing(S)
    /\ entries = [k \in DOMAIN paths |-> paths[k].ext]
    /\ Concurrency \in 1..MaxConcurrency
    /\ \E pre \in {{}, {ReplaceExt(paths[k]) : k \in DOMAIN paths}} :
          /\ fs = Range(paths) \cup pre
          /\ content = [d \in {ReplaceExt(paths[k]) : k \in DOMAIN paths} |->
                           IF d \in pre THEN Preexisting ELSE Absent]
    /\ mainPc = "loop"
    /\ walkIdx = Len(paths) + 1
    /\ files = paths
    /\ count = Len(paths)
    /\ progress = 0
    /\ err = Nil
    /\ stats = EmptyStats
    /\ wg = 0
    /\ mu = 0
    /\ sm = 0
    /\ idx = 1
    /\ pc = [g \in DOMAIN paths |-> "idle"]
    /\ sizeBefore = [g \in DOMAIN paths |-> 0]
    /\ sizeAfter = [g \in DOMAIN paths |-> 0]
    /\ goErr = [g \in DOMAIN paths |-> Nil]
    /\ reg = [g \in DOMAIN paths |-> NoReg]
    /\ peak = 0
    /\ order = <<>>
    /\ goPath = [g \in DOMAIN paths |-> NoPath]
    /\ trace = [g \in DOMAIN paths |-> <<>>]
    /\ errChan = <<>>
    /\ oldTotalSize = 0
    /\ newTotalSize = 0
    /\ ret = NoReturn

\* What a step of ConvertImage leaves of the goroutine's locals: the step
\* is logged and, when it failed, 0, 0, err is what ConvertImage returns.
StepTaken(g, step, ok) ==
    /\ trace' = [trace EXCEPT ![g] = Append(@, [step |-> step, ok |-> ok])]
    /\ goErr' = [goErr EXCEPT ![g] = IF ok THEN @ ELSE Failure]
    /\ UNCHANGED <<sizeBefore, sizeAfter, reg>>

\* file, err := os.Open(path)
TaskOpen(g) ==
    /\ pc[g] = "convert"
    /\ LET p == BodyPath(paths[g], LoopPath)
       IN /\ goPath' = [goPath EXCEPT ![g] = p]
          /\ \E ok \in BOOLEAN :
                /\ StepTaken(g, "open", ok /\ p \in fs)
                /\ pc' = [pc EXCEPT ![g] = AfterStep("decode", ok /\ p \in fs)]
    /\ UNCHANGED <<envVars, fs, findVars, mainPc, progress, stats, wg, mu,
                   sm, idx, peak, order, content, chanVars>>

\* image, err := vips.NewImageFromReader(reader)
TaskDecode(g) ==
    /\ pc[g] = "decode"
    /\ \E ok \in BOOLEAN :
          /\ StepTaken(g, "decode", ok)
          /\ pc' = [pc EXCEPT ![g] = AfterStep("encode", ok)]
    /\ UNCHANGED <<envVars, fs, findVars, mainPc, progress, stats, wg, mu,
                   sm, idx, peak, order, goPath, content, chanVars>>

\* bytes, _, err := image.ExportAvif(AvifExportParams)
TaskEncode(g) ==
    /\ pc[g] = "encode"
    /\ \E ok \in BOOLEAN :
          /\ StepTaken(g, "encode", ok)
          /\ pc' = [pc EXCEPT ![g] = AfterStep("write", ok)]
    /\ UNCHANGED <<envVars, fs, findVars, mainPc, progress, stats, wg, mu,
                   sm, idx, peak, order, goPath, content, chanVars>>

\* err = os.WriteFile(ReplaceExt(path), bytes, 0644) succeeds.
TaskWriteOk(g) ==
    /\ pc[g] = "write"
    /\ LET d == ReplaceExt(goPath[g])
       IN /\ WriteAllowed(d, fs)
          /\ fs' = fs \cup {d}
          /\ content' = [content EXCEPT ![d] = g]
    /\ StepTaken(g, "write", TRUE)
    /\ pc' = [pc EXCEPT ![g] = AfterStep("remove", TRUE)]
    /\ UNCHANGED <<envVars, findVars, mainPc, progress, stats, wg, mu, sm,
                   idx, peak, order, goPath, chanVars>>

\* os.WriteFile fails: nothing was created, or a file with part of the bytes.
TaskWriteFail(g) ==
    /\ pc[g] = "write"
    /\ LET d == ReplaceExt(goPath[g])
       IN \E torn \in BOOLEAN :
             IF torn THEN /\ fs' = fs \cup {d}
                          /\ content' = [content EXCEPT ![d] = g]
                     ELSE UNCHANGED <<fs, content>>
    /\ StepTaken(g, "write", FALSE)
    /\ pc' = [pc EXCEPT ![g] = AfterStep("remove", FALSE)]
    /\ UNCHANGED <<envVars, findVars, mainPc, progress, stats, wg, mu, sm,
                   idx, peak, order, goPath, chanVars>>

\* err = os.Remove(path), and the return of ConvertImage.
TaskRemove(g) ==
    /\ pc[g] = "remove"
    /\ \E ok \in BOOLEAN :
          LET r == FinalResult(ok, goPath[g])
          IN /\ fs' = IF ok THEN fs \ {goPath[g]} ELSE fs
             /\ trace' = [trace EXCEPT
                             ![g] = Append(@, [step |-> "remove", ok |-> ok])]
             /\ sizeBefore' = [sizeBefore EXCEPT ![g] = r.before]
             /\ sizeAfter' = [sizeAfter EXCEPT ![g] = r.after]
             /\ goErr' = [goErr EXCEPT ![g] = r.err]
    /\ pc' = [pc EXCEPT ![g] = "lock"]
    /\ UNCHANGED <<envVars, findVars, mainPc, progress, stats, wg, mu, sm,
                   idx, reg, peak, order, goPath, content, chanVars>>

TaskStep(g) ==
    \/ TaskOpen(g)
    \/ TaskDecode(g)
    \/ TaskEncode(g)
    \/ TaskWriteOk(g)
    \/ TaskWriteFail(g)
    \/ TaskRemove(g)
    \/ GoLock(g)
    \/ GoProgress(g)
    \/ GoAppendLoad(g)
    \/ GoAppendStore(g)
    \/ GoBeforeLoad(g)
    \/ GoBeforeStore(g)
    \/ GoAfterLoad(g)
    \/ GoAfterStore(g)
    \/ GoUnlock(g)
    \/ GoRelease(g)
    \/ GoDone(g)

TaskNext ==
    \/ LoopAdd
    \/ LoopAcquire
    \/ LoopGo
    \/ LoopEnd
    \/ WgWait
    \/ \E g \in Goroutines : TaskStep(g)

TaskSpec == TaskInit /\ [][TaskNext]_vars

\* ------------------------------------------- the error-channel variant
\* ConvertImages of src/go.mod: no Stats and no progress bar; a failed task
\* sends its error on errChan and the function returns the two totals and
\* an error.  An error value is identified by the goroutine that sent it,
\* 0 standing for nil.

\* ConvertImage of this variant ends after os.WriteFile: the source stays.
ChanFailPoints == {"none", "open", "decode", "encode", "write"}

ChanConvertImage(p, at, torn, disk) ==
    IF at = "none" /\ p \in disk THEN
        [before |-> SourceBytes(p), after |-> EncodedBytes(p), err |-> Nil,
         disk |-> disk \cup {ReplaceExt(p)}]
    ELSE ConvertImage(p, at, torn, disk)

\* errChan := make(chan error, len(paths))
Unbuffered(ps) == 0

ChanCap(ps) == Len(ps)

\* ConvertImages has just been entered with paths, empty or not (this
\* variant's main does not test len(paths)); a source may be gone already.
ChanInit ==
    /\ entries \in UNION {[1..n -> {"jpg"}] : n \in 0..MaxEntries}
    /\ Concurrency \in 1..MaxConcurrency
    /\ paths = [k \in DOMAIN entries |-> PathOf(k, entries[k])]
    /\ fs \in {Range(paths), Range(paths) \ {PathOf(1, "jpg")}}
    /\ mainPc = "loop"
    /\ walkIdx = Len(paths) + 1
    /\ files = paths
    /\ count = Len(paths)
    /\ progress = 0
    /\ err = Nil
    /\ stats = EmptyStats
    /\ wg = 0
    /\ mu = 0
    /\ sm = 0
    /\ idx = 1
    /\ pc = [g \in Goroutines |-> "idle"]
    /\ sizeBefore = [g \in Goroutines |-> 0]
    /\ sizeAfter = [g \in Goroutines |-> 0]
    /\ goErr = [g \in Goroutines |-> Nil]
    /\ reg = [g \in Goroutines |-> NoReg]
    /\ peak = 0
    /\ order = <<>>
    /\ goPath = [g \in Goroutines |-> NoPath]
    /\ trace = [g \in Goroutines |-> <<>>]
    /\ content = <<>>
    /\ errChan = <<>>
    /\ oldTotalSize = 0
    /\ newTotalSize = 0
    /\ ret = NoReturn

\* for _, path := range paths { wg.Add(1)
ChanAdd == LoopAdd

\* sem.Acquire(context.TODO(), 1)
ChanAcquire == LoopAcquire

\* go func(path string) {...}(path)
ChanGo == LoopGo

\* The range loop is over.
ChanEnd == LoopEnd

\* oldSize, newSize, err := ConvertImage(path); if err != nil
ChanConvert(g) ==
    /\ pc[g] = "convert"
    /\ \E at \in ChanFailPoints, torn \in BOOLEAN :
        LET p == BodyPath(paths[g], LoopPath)
            r == ChanConvertImage(p, at, torn, fs)
        IN /\ goPath' = [goPath EXCEPT ![g] = p]
           /\ sizeBefore' = [sizeBefore EXCEPT ![g] = r.before]
           /\ sizeAfter' = [sizeAfter EXCEPT ![g] = r.after]
           /\ goErr' = [goErr EXCEPT ![g] = r.err]
           /\ fs' = r.disk
           /\ pc' = [pc EXCEPT ![g] = IF r.err # Nil THEN "send" ELSE "lock"]
    /\ UNCHANGED <<envVars, findVars, mainPc, progress, stats, wg, mu, sm,
                   idx, reg, peak, order, taskVars, chanVars>>

\* errChan <- err; return: blocks while the buffer is full (nobody
\* receives before wg.Wait has returned).
ChanSend(g) ==
    /\ pc[g] = "send"
    /\ Len(errChan) < ChanCap(paths)
    /\ errChan' = Append(errChan, g)
    /\ pc' = [pc EXCEPT ![g] = "release"]
    /\ UNCHANGED <<envVars, fs, findVars, mainPc, progress, stats, wg, mu,
                   sm, idx, sizeBefore, sizeAfter, goErr, reg, peak, order,
                   goPath, taskVars, oldTotalSize, newTotalSize, ret>>

\* mu.Lock()
ChanLock(g) ==
    /\ pc[g] = "lock"
    /\ CanLock(mu)
    /\ mu' = g
    /\ pc' = [pc EXCEPT ![g] = "oldLoad"]
    /\ UNCHANGED <<envVars, fs, findVars, mainPc, progress, stats, wg, sm,
                   idx, sizeBefore, sizeAfter, goErr, reg, peak, order,
                   goPath, taskVars, chanVars>>

\* oldTotalSize += oldSize: read ...
ChanOldLoad(g) ==
    /\ pc[g] = "oldLoad"
    /\ reg' = [reg EXCEPT ![g].size = oldTotalSize]
    /\ pc' = [pc EXCEPT ![g] = "oldStore"]
    /\ UNCHANGED <<envVars, fs, findVars, mainPc, progress, stats, wg, mu,
                   sm, idx, sizeBefore, sizeAfter, goErr, peak, order,
                   goPath, taskVars, chanVars>>

\* ... and write.
ChanOldStore(g) ==
    /\ pc[g] = "oldStore"
    /\ oldTotalSize' = Accumulate(reg[g].size, sizeBefore[g])
    /\ reg' = [reg EXCEPT ![g] = NoReg]
    /\ pc' = [pc EXCEPT ![g] = "newLoad"]
    /\ UNCHANGED <<envVars, fs, findVars, mainPc, progress, stats, wg, mu,
                   sm, idx, sizeBefore, sizeAfter, goErr, peak, order,
                   goPath, taskVars, errChan, newTotalSize, ret>>

\* newTotalSize += newSize: read ...
ChanNewLoad(g) ==
    /\ pc[g] = "newLoad"
    /\ reg' = [reg EXCEPT ![g].size = newTotalSize]
    /\ pc' = [pc EXCEPT ![g] = "newStore"]
    /\ UNCHANGED <<envVars, fs, findVars, mainPc, progress, stats, wg, mu,
                   sm, idx, sizeBefore, sizeAfter, goErr, peak, order,
                   goPath, taskVars, chanVars>>

\* ... and write.
ChanNewStore(g) ==
    /\ pc[g] = "newStore"
    /\ newTotalSize' = Accumulate(reg[g].size, sizeAfter[g])
    /\ reg' = [reg EXCEPT ![g] = NoReg]
    /\ pc' = [pc EXCEPT ![g] = "unlock"]
    /\ UNCHANGED <<envVars, fs, findVars, mainPc, progress, stats, wg, mu,
                   sm, idx, sizeBefore, sizeAfter, goErr, peak, order,
                   goPath, taskVars, errChan, oldTotalSize, ret>>

\* mu.Unlock()
ChanUnlock(g) == GoUnlock(g)

\* deferred sem.Release(1)
ChanRelease(g) == GoRelease(g)

\* deferred wg.Done(); the goroutine ends.
ChanDone(g) == GoDone(g)

\* wg.Wait(); close(errChan)
ChanWait ==
    /\ mainPc = "wait"
    /\ WaitDone(wg)
    /\ mainPc' = "closed"
    /\ UNCHANGED <<envVars, fs, findVars, progress, stats, wg, mu, sm, idx,
                   goVars, peak, order, goPath, taskVars, chanVars>>

\* if len(errChan) > 0 { return 0, 0, <-errChan }
\* return oldTotalSize, newTotalSize, nil
ChanReturn ==
    /\ mainPc = "closed"
    /\ IF Len(errChan) > 0
          THEN /\ ret' = [old |-> 0, new |-> 0, err |-> Head(errChan),
                          returned |-> TRUE]
               /\ errChan' = Tail(errChan)
          ELSE /\ ret' = [old |-> oldTotalSize, new |-> newTotalSize,
                          err |-> 0, returned |-> TRUE]
               /\ UNCHANGED errChan
    /\ mainPc' = "returned"
    /\ UNCHANGED <<envVars, fs, findVars, progress, stats, wg, mu, sm, idx,
                   goVars, peak, order, goPath, taskVars, oldTotalSize,
                   newTotalSize>>

ChanStep(g) ==
    \/ ChanConvert(g)
    \/ ChanSend(g)
    \/ ChanLock(g)
    \/ ChanOldLoad(g)
    \/ ChanOldStore(g)
    \/ ChanNewLoad(g)
    \/ ChanNewStore(g)
    \/ ChanUnlock(g)
    \/ ChanRelease(g)
    \/ ChanDone(g)

ChanNext ==
    \/ ChanAdd
    \/ ChanAcquire
    \/ ChanGo
    \/ ChanEnd
    \/ ChanWait
    \/ ChanReturn
    \/ \E g \in Goroutines : ChanStep(g)

ChanSpec == ChanInit /\ [][ChanNext]_vars

\* Fairness as for FairSpec below: some enabled step is taken.
FairChanSpec == ChanSpec /\ WF_vars(ChanNext)

\* The Go runtime does not halt while main or a goroutine can take a step.
\* Nothing more is assumed: no goroutine is promised a turn of its own.
FairSpec == Spec /\ WF_vars(Next)

\* ------------------------------------------------------------ vocabulary
\* Goroutine g is between the start of the func literal (its permit was
\* acquired for it by the loop) and its deferred sm.Release(1).
Holding(g) ==
    pc[g] \in {"convert", "lock", "progress", "appendLoad", "appendStore",
              "beforeLoad", "beforeStore", "afterLoad", "afterStore",
              "unlock", "release"}

InFlight == {g \in Goroutines : Holding(g)}

\* ConvertImage has returned in goroutine g.
Ran(g) == pc[g] \notin {"idle", "convert"}

Succeeded == {g \in Goroutines : Ran(g) /\ goErr[g] = Nil}

Failing == {g \in Goroutines : Ran(g) /\ goErr[g] # Nil}

\* ConvertImages has returned to main.
Returned == mainPc \in {"returned", "done"}

AllSettled == \A k \in 1..Len(paths) : pc[k] = "exit"

RECURSIVE SumOver(_, _)
SumOver(f, S) ==
    IF S = {} THEN 0
    ELSE LET x == CHOOSE y \in S : TRUE IN f[x] + SumOver(f, S \ {x})

\* The total a sequence q of goroutines leaves behind when each in turn
\* adds its value f[g] the way the goroutines do.
RECURSIVE FoldTotal(_, _)
FoldTotal(f, q) ==
    IF q = <<>> THEN 0
    ELSE Accumulate(FoldTotal(f, SubSeq(q, 1, Len(q) - 1)), f[q[Len(q)]])

Orders(S) ==
    {q \in [1..Cardinality(S) -> S] : \A a, b \in DOMAIN q : a # b => q[a] # q[b]}

\* The stats a strictly sequential run over paths[1..k] leaves, given the
\* outcome each ConvertImage call had.
RECURSIVE SequentialStats(_)
SequentialStats(k) ==
    IF k = 0 THEN EmptyStats
    ELSE LET s == SequentialStats(k - 1)
         IN IF goErr[k] # Nil
               THEN [s EXCEPT !.Failed = Append(@, paths[k])]
               ELSE [s EXCEPT !.SizeBefore = Accumulate(@, sizeBefore[k]),
                              !.SizeAfter = Accumulate(@, sizeAfter[k])]

TypeOK ==
    /\ mainPc \in {"walk", "found", "panic", "noimages", "loop", "acquire",
                   "go", "wait", "closed", "returned", "done"}
    /\ sm \in 0..Len(entries)
    /\ wg \in 0..Len(entries)
    /\ mu \in {0} \cup Goroutines

\* ----------------------------------------------------------------- claims
\* C1: at every moment the number of goroutines between the acquisition of
\* their permit and its release is at most Concurrency (>= 1).
C1_BoundedInFlight ==
    /\ Concurrency >= 1
    /\ Cardinality(InFlight) <= Concurrency

\* The budget is saturated while the loop waits to admit a further path.
C1_Witness ==
    /\ Concurrency = MaxConcurrency
    /\ Cardinality(InFlight) = Concurrency
    /\ mainPc = "acquire"

\* C2: when ConvertImages returns, the entries of stats.Failed plus the
\* tasks whose ConvertImage call succeeded number len(paths).
C2_NoOutcomeLost ==
    Returned => Len(stats.Failed) + Cardinality(Succeeded) = Len(paths)

C2_Witness ==
    /\ Returned
    /\ Len(stats.Failed) >= 2
    /\ Cardinality(Succeeded) >= 1
    /\ peak >= 2

\* C3: a failing ConvertImage never cancels the batch: at the return every
\* path was admitted and run, the error returned is nil, and the failures
\* are exactly the paths listed in stats.Failed.
C3_FailureDoesNotCancel ==
    Returned =>
        /\ \A k \in 1..Len(paths) : Ran(k) /\ pc[k] = "exit"
        /\ err = Nil
        /\ Range(stats.Failed) = {paths[g] : g \in Failing}
        /\ Len(stats.Failed) = Cardinality(Failing)

\* The first task failed and a later one still ran and succeeded.
C3_Witness ==
    /\ Returned
    /\ Len(paths) >= 2
    /\ goErr[1] # Nil
    /\ \E k \in 2..Len(paths) : k \in Succeeded /\ sizeBefore[k] > 0
    /\ stats.Failed = <<paths[1]>>

\* C4: ConvertImages returns only when every admitted task has ended (none
\* running, none waiting for the mutex), and stats is not written after.
C4_ReturnIsFinal ==
    /\ [](Returned => AllSettled /\ mu = 0 /\ wg = 0)
    /\ [][Returned => stats' = stats]_vars

C4_Witness ==
    /\ mainPc = "done"
    /\ Len(paths) = MaxEntries
    /\ stats.Failed # <<>>
    /\ stats.SizeBefore > 0

\* C5: the final SizeBefore / SizeAfter are the sums of the bytes read and
\* the bytes encoded over exactly the successful tasks.
C5_TotalsAreSums ==
    Returned =>
        /\ stats.SizeBefore =
              SumOver([g \in DOMAIN paths |-> SourceBytes(paths[g])], Succeeded)
        /\ stats.SizeAfter =
              SumOver([g \in DOMAIN paths |-> EncodedBytes(paths[g])], Succeeded)

\* Two successes recorded by goroutines that ran at the same time, and a
\* failure that added nothing.
C5_Witness ==
    /\ Returned
    /\ Cardinality(Succeeded) >= 2
    /\ Failing # {}
    /\ peak >= 2

\* C6: the semaphore has Concurrency permits; the permits held are exactly
\* those of the tasks in flight (the one admitted and about to start
\* included), and none is held once all tasks have settled.
C6_PermitsBalanced ==
    /\ sm = Cardinality(InFlight) + (IF mainPc = "go" THEN 1 ELSE 0)
    /\ sm \in 0..Concurrency
    /\ (mainPc \in {"wait", "returned", "done"} /\ AllSettled) => sm = 0

\* Every task failed and every permit is free again.
C6_Witness ==
    /\ Returned
    /\ Len(paths) >= 2
    /\ Failing = 1..Len(paths)
    /\ sm = 0

\* C7: under fair scheduling ConvertImages, once started, returns with every
\* path run to its end.
C7_Terminates ==
    (mainPc = "loop") ~> (Returned /\ AllSettled /\ idx = Len(paths) + 1)

\* The admission loop had to wait for a permit and the call still returned.
C7_Witness ==
    /\ Returned
    /\ Len(paths) > Concurrency
    /\ Failing # {}

\* C8: the final totals are what any order of recording the successful
\* outcomes yields.
C8_OrderIndependent ==
    Returned =>
        \A q \in Orders(Succeeded) :
            /\ stats.SizeBefore = FoldTotal(sizeBefore, q)
            /\ stats.SizeAfter = FoldTotal(sizeAfter, q)

\* Two successes were recorded in the reverse of the order of paths.
C8_Witness ==
    /\ Returned
    /\ \E a, b \in DOMAIN order :
          /\ a < b
          /\ order[a] > order[b]
          /\ {order[a], order[b]} \subseteq Succeeded

\* C9: with budget 1 at most one task runs at a time and the result is the
\* sequential one; with any budget the totals and the set of failed paths
\* are those of that sequential run.
C9_SameAsSequential ==
    /\ Concurrency = 1 =>
          Cardinality(InFlight) + (IF mainPc = "go" THEN 1 ELSE 0) <= 1
    /\ Returned =>
          LET seq == SequentialStats(Len(paths))
          IN /\ stats.SizeBefore = seq.SizeBefore
             /\ stats.SizeAfter = seq.SizeAfter
             /\ Range(stats.Failed) = Range(seq.Failed)
             /\ Concurrency = 1 => stats = seq

C9_Witness ==
    /\ Returned
    /\ Concurrency = 1
    /\ peak = 1
    /\ Len(paths) = MaxEntries
    /\ Len(stats.Failed) >= 2
    /\ stats.SizeBefore > 0

\* C10: when FindImagesAt fails main aborts: no permit is acquired, no
\* goroutine started, no file written or removed.
C10_AbortBeforeConvert ==
    err # Nil =>
        /\ mainPc \in {"found", "panic"}
        /\ sm = 0 /\ wg = 0 /\ peak = 0
        /\ \A g \in Goroutines : pc[g] = "idle"
        /\ fs = InitialFiles(entries)

\* The walk failed after it had already matched a file.
C10_Witness ==
    /\ mainPc = "panic"
    /\ Len(paths) >= 1

\* C11: when the walk callback receives an error the traversal stops and
\* FindImagesAt hands back no path together with the error.
C11_NoPartialResult ==
    err # Nil => paths = <<>>

\* C12: a walk that succeeds with no match returns an empty list and a nil
\* error, and main then ends on its "No images found" path without calling
\* ConvertImages; only a walk error makes main panic.
C12_NoImagesIsNotAnError ==
    /\ mainPc = "noimages" =>
          /\ err = Nil /\ paths = <<>>
          /\ walkIdx = Len(entries) + 1
          /\ \A k \in DOMAIN entries : entries[k] \notin {"jpg", "err"}
          /\ sm = 0 /\ wg = 0 /\ peak = 0
          /\ \A g \in Goroutines : pc[g] = "idle"
          /\ fs = InitialFiles(entries)
    /\ (mainPc \notin {"walk", "found"} /\ err = Nil /\ paths = <<>>) =>
          mainPc = "noimages"
    /\ mainPc = "panic" => err # Nil

\* A tree with entries, none of them an image.
C12_Witness ==
    /\ mainPc = "noimages"
    /\ Len(entries) = MaxEntries
    /\ fs # {}

\* C14: when the walk ends, the count reported through Progress.Add is the
\* number of paths FindImagesAt returns.
C14_DiscoveryReported ==
    (mainPc = "found" /\ err = Nil) => progress = Len(paths)

\* The goroutines whose Progress.Add(1) has been called.
Notified ==
    {g \in Goroutines :
        pc[g] \in {"appendLoad", "appendStore", "beforeLoad", "beforeStore",
                  "afterLoad", "afterStore", "unlock", "release", "wgdone",
                  "exit"}}

\* C15: during ConvertImages the bar has one tick per task whose
\* ConvertImage has returned and that has entered the critical section,
\* failed or not, and at the return it has len(paths) ticks.
C15_OneTickPerTask ==
    mainPc \in {"loop", "acquire", "go", "wait", "returned", "done"} =>
        /\ progress = Cardinality(Notified)
        /\ \A g \in Notified : Ran(g)
        /\ Returned => progress = Len(paths)

C15_Witness ==
    /\ Returned
    /\ progress = MaxEntries
    /\ Failing # {}
    /\ Succeeded # {}

\* How often path p occurs in the sequence q.
Occurrences(q, p) == Cardinality({k \in DOMAIN q : q[k] = p})

\* C16: every path is worked on by exactly one goroutine, its own (goroutine
\* k by paths[k]), started once, and when ConvertImages returns exactly one
\* outcome is recorded for it: once in stats.Failed, or its bytes once in
\* the totals.
C16_OnePathOneOutcome ==
    mainPc \in {"loop", "acquire", "go", "wait", "returned", "done"} =>
        /\ \A g \in Goroutines : pc[g] # "idle" <=> g < idx
        /\ \A g \in Goroutines :
              goPath[g] = (IF Ran(g) THEN paths[g] ELSE NoPath)
        /\ Returned =>
              /\ idx = Len(paths) + 1
              /\ \A k \in DOMAIN paths :
                    /\ Cardinality({g \in Goroutines : goPath[g] = paths[k]}) = 1
                    /\ Occurrences(stats.Failed, paths[k]) =
                          (IF k \in Failing THEN 1 ELSE 0)
              /\ stats.SizeBefore = SumOver(sizeBefore, Succeeded)
              /\ stats.SizeAfter = SumOver(sizeAfter, Succeeded)

\* A goroutine ran its ConvertImage after the loop had moved on to a later
\* path, and the batch ended with a failure and a success.
C16_Witness ==
    /\ Returned
    /\ Len(paths) = MaxEntries
    /\ \E a, b \in DOMAIN order : a < b /\ order[a] > order[b]
    /\ Failing # {}
    /\ Succeeded # {}

\* C17: waiting in sm.Acquire, the loop is blocked exactly when Concurrency
\* tasks hold a permit; then one of them can take a step, and with fewer
\* permits held (as soon as one is released) the acquisition goes through.
C17_BlockedIffSaturated ==
    mainPc = "acquire" =>
        /\ (ENABLED LoopAcquire) <=> Cardinality(InFlight) < Concurrency
        /\ ~(ENABLED LoopAcquire) =>
              /\ Cardinality(InFlight) = Concurrency
              /\ \E g \in InFlight : ENABLED GoStep(g)

\* The loop is blocked with the budget used up, one task in the critical
\* section and another waiting for the mutex.
C17_Witness ==
    /\ mainPc = "acquire"
    /\ ~(ENABLED LoopAcquire)
    /\ Concurrency = MaxConcurrency
    /\ mu # 0
    /\ \E g \in InFlight : pc[g] = "lock"

\* The steps of goroutine g's ConvertImage that succeeded.
StepsDone(g) == {trace[g][k].step : k \in {j \in DOMAIN trace[g] : trace[g][j].ok}}

\* ConvertImage of goroutine g ended because os.Remove failed.
RemoveFailed(g) ==
    /\ Len(trace[g]) = Len(StepOrder)
    /\ trace[g][Len(trace[g])] = [step |-> "remove", ok |-> FALSE]

\* C13: a task whose os.Remove fails after its destination was written
\* returns 0, 0 and an error, keeps the destination file, and at the return
\* of ConvertImages is listed once in stats.Failed and adds nothing to the
\* totals.
C13_RemoveFailureIsFailure ==
    \A g \in Goroutines :
        RemoveFailed(g) =>
            /\ "write" \in StepsDone(g)
            /\ goErr[g] = Failure /\ sizeBefore[g] = 0 /\ sizeAfter[g] = 0
            /\ ReplaceExt(goPath[g]) \in fs
            /\ content[ReplaceExt(goPath[g])] \in Goroutines
            /\ Returned =>
                  /\ Occurrences(stats.Failed, paths[g]) = 1
                  /\ stats.SizeBefore =
                        SumOver([h \in DOMAIN paths |-> SourceBytes(paths[h])],
                                {h \in Goroutines : "remove" \in StepsDone(h)})
                  /\ stats.SizeAfter =
                        SumOver([h \in DOMAIN paths |-> EncodedBytes(paths[h])],
                                {h \in Goroutines : "remove" \in StepsDone(h)})

\* One task could not remove its source, another completed.
C13_Witness ==
    /\ Returned
    /\ \E g, h \in Goroutines :
          /\ RemoveFailed(g)
          /\ "remove" \in StepsDone(h)
          /\ stats.Failed = <<paths[g]>>
          /\ stats.SizeBefore = SourceBytes(paths[h])

\* C18: ConvertImage takes open, decode, encode, write, remove in that
\* order and stops at the first failure: a source is gone only if all five
\* steps of its task succeeded, and a destination holds a task's bytes only
\* if that task's open, decode and encode succeeded.
C18_StepsInOrder ==
    \A g \in Goroutines :
        /\ Len(trace[g]) <= Len(StepOrder)
        /\ \A k \in DOMAIN trace[g] :
              /\ trace[g][k].step = StepOrder[k]
              /\ k < Len(trace[g]) => trace[g][k].ok
        /\ (goPath[g] # NoPath /\ goPath[g] \notin fs) =>
              StepsDone(g) = Range(StepOrder)
        /\ (\E d \in DOMAIN content : content[d] = g) =>
              /\ {"open", "decode", "encode"} \subseteq StepsDone(g)
              /\ Len(trace[g]) >= 4

\* One task failed in the codec and left the disk alone, one failed in
\* WriteFile and kept its source, one went through and lost its source.
C18_Witness ==
    /\ Returned
    /\ \E g, h \in Goroutines :
          /\ Len(trace[g]) = 4 /\ ~trace[g][4].ok /\ paths[g] \in fs
          /\ StepsDone(h) = Range(StepOrder) /\ paths[h] \notin fs

\* Two different goroutines work on sources with the same destination.
Collide(g, h) ==
    /\ g # h
    /\ goPath[g] # NoPath /\ goPath[h] # NoPath
    /\ ReplaceExt(goPath[g]) = ReplaceExt(goPath[h])

\* C19: WriteFile is never refused because the destination exists, be it
\* from before the run or written by another task of the batch: a task at
\* its write can always write, a successful write makes the destination
\* hold that task's bytes in place of what was there, and two tasks that
\* share a destination can both end as successes.
C19_SilentOverwrite ==
    /\ [](\A g \in Goroutines : pc[g] = "write" => ENABLED TaskWriteOk(g))
    /\ [][\A g \in Goroutines :
            (pc[g] = "write" /\ pc'[g] = "remove") =>
                /\ ReplaceExt(goPath[g]) \in fs'
                /\ content'[ReplaceExt(goPath[g])] = g]_vars
    /\ [](Returned =>
            \A g, h \in Goroutines :
                (Collide(g, h) /\ {g, h} \subseteq Succeeded) =>
                    /\ content[ReplaceExt(goPath[g])] \in {g, h}
                    /\ stats.Failed \in Seq(Range(paths) \ {paths[g], paths[h]})
                    /\ stats.SizeBefore >= sizeBefore[g] + sizeBefore[h])

\* a.jpg and a.png ran at the same time over a destination that existed
\* before; both succeeded and the destination holds the bytes of a.jpg,
\* written after those of a.png.
C19_Witness ==
    /\ Returned
    /\ peak >= 2
    /\ Collide(1, 2)
    /\ {1, 2} \subseteq Succeeded
    /\ content[ReplaceExt(goPath[1])] = 1
    /\ stats.Failed = <<>>

\* C20: in the error-channel variant a task that failed can always send
\* its error; ConvertImages returns, and when it has returned every task
\* has settled, every permit is back and the WaitGroup is at zero; it
\* returns 0, 0 and the error of one of the failed tasks when a task
\* failed, and the sums over all tasks with a nil error otherwise.
C20_ErrorChannelReturns ==
    /\ [](\A g \in Goroutines : pc[g] = "send" => ENABLED ChanSend(g))
    /\ [](ret.returned =>
            /\ AllSettled /\ sm = 0 /\ wg = 0
            /\ IF Failing # {}
                  THEN /\ ret.old = 0 /\ ret.new = 0
                       /\ ret.err \in Failing
                  ELSE /\ ret.err = 0
                       /\ ret.old = SumOver([g \in DOMAIN paths |->
                                        SourceBytes(paths[g])], DOMAIN paths)
                       /\ ret.new = SumOver([g \in DOMAIN paths |->
                                        EncodedBytes(paths[g])], DOMAIN paths))
    /\ <>ret.returned

\* Every task of a full batch failed, with more tasks than permits, and the
\* function returned the error that was sent first.
C20_Witness ==
    /\ ret.returned
    /\ Len(paths) = MaxEntries
    /\ Len(paths) > Concurrency
    /\ Failing = DOMAIN paths
    /\ Len(errChan) = Len(paths) - 1
    /\ ret.err # 0
====
